---- MODULE Spec2Model ----
(***************************************************************************)
(* Model of the browser metronome of washwalk/clik-repo.                   *)
(*                                                                         *)
(* Two programs are modelled over one set of variables; Init picks which   *)
(* one is loaded in the page:                                              *)
(*   impl = "main"    src/metronome.js, lines 1-683 (iOS aware, start()    *)
(*                    waits for audioContext.resume())                     *)
(*   impl = "public"  src/public/metronome.js (tempo commands restart the  *)
(*                    scheduler, audio context created lazily in start())  *)
(*                                                                         *)
(* Time.  audioContext.currentTime and state.nextNoteTime are seconds in   *)
(* the source.  The model counts them in units of 60/BeatUnits seconds, so *)
(* that the beat spacing 60.0 / state.bpm is BeatUnits \div bpm.  The      *)
(* division is exact for every bpm that divides BeatUnits (all bpm values  *)
(* reachable from 40 by half/double, and 30, 60, 100, 120, 200, 240); for   *)
(* the others it is rounded down by less than one unit (0.17 ms), in the   *)
(* way the source's floating point quotient is rounded.                    *)
(* The audio clock moves in quanta of 1/16 s, so that a timer can fire     *)
(* 0.0625 s after the previous one (later than the 0.05 s start delay,     *)
(* sooner than the 0.1 s look-ahead) and two taps can be 0.5 s apart.      *)
(***************************************************************************)
EXTENDS Integers, Sequences, FiniteSets, TLC

VARIABLES
    impl,              \* which script is loaded: "main" or "public"
    ios,               \* isIOS() of the device (main only)
    audioContext,      \* "null", or the AudioContext's state: "suspended" / "running"
    audioInitialized,  \* main: let audioInitialized
    currentTime,       \* audioContext.currentTime (the audio clock), in units
    state,             \* const state = { bpm, isRunning, ... }
    timers,            \* ids of the setInterval timers created and not yet cleared
    pendingResume,     \* main: start()'s audioContext.resume() promises not yet settled
    iosCreate,         \* main: createAudioContext: "idle", "awaiting" (its resume), "done"
    randomInputOpen,   \* main: randomInput.style.display !== 'none'
    clicks,            \* playClick calls made by the last handler: <<[time, out, draw]>>
    lastClick,         \* timestamp of the most recent playClick call, NULL if none
    wake,              \* [kind, at]: last startMetronome ("start") or scheduler run ("tick") of this session
    gap,               \* set by a scheduler run: [after, since], the wake before it and the time since
    userStopped,       \* the last toggle issued by the user was a stop
    threw,             \* the last handler ended in an uncaught TypeError
    confirmed,         \* the text the last handler took from the mute entry / prompt(), "" if none
    status,            \* statusEl.textContent, as the last updateUI() left it
    intervalMs,        \* argument of the last calculateBpmFromInterval() call, NULL if none
    bpmOut,            \* ... and what it returned
    reqUrl,            \* server: req.url of the last request, as path segments
    res,               \* server: its response [code, path, read]
    unmute,            \* main: the closure of unmuteIosAudio(): channel states, listeners, promises
    events,            \* number of user commands and audio interruptions so far
    last               \* name of the last handler that ran

vars == <<impl, ios, audioContext, audioInitialized, currentTime, state, timers,
          pendingResume, iosCreate, randomInputOpen, clicks, lastClick, wake,
          gap, userStopped, threw, confirmed, status, intervalMs, bpmOut,
          reqUrl, res, unmute, events, last>>

----------------------------------------------------------------------------
(* Units and bounds *)

BeatUnits == 256 * 3 * 25 * 19          \* units per minute
Second == BeatUnits \div 60             \* 6080 units
Quantum == Second \div 16               \* the clock moves in steps of 0.0625 s

MaxClock == 12                          \* the clock stops after MaxClock quanta
MaxEvents == 3                          \* at most MaxEvents user commands and audio interruptions
MaxTimers == 2                          \* at most MaxTimers live setInterval timers
MaxAttempts == 3                        \* at most MaxAttempts unlock attempts per channel
MaxUrlSegments == 3                     \* a request URL has at most MaxUrlSegments path segments
MaxIntervalMs == 1000                   \* calculateBpmFromInterval is called with 1..MaxIntervalMs ms (and one minute)
MaxPending == MaxTimers                 \* ... and as many unsettled resume promises of start()

NULL == 0 - 1                           \* null for lastTapTime / no timestamp

----------------------------------------------------------------------------
(* Program constants *)

scheduleAheadTime == Second \div 10     \* state.scheduleAheadTime: 0.1
StartDelay == Second \div 20            \* currentTime + 0.05
MinBpm == 1
MaxBpm == 300
MinTapBpm == 30

----------------------------------------------------------------------------
(* Pure helpers *)

Min(a, b) == IF a < b THEN a ELSE b
Max(a, b) == IF a > b THEN a ELSE b

\* Math.round(num / den) for num >= 0, den > 0: halves round up.
Round(num, den) == (2 * num + den) \div (2 * den)

\* Mutant of calculateBpmFromInterval: clamped like the tap tempo.
calculateBpmClamped(ms) == Max(30, Min(300, Round(60000, ms)))

\* calculateBpmFromInterval(intervalMs): Math.round(60000 / intervalMs)
calculateBpmFromInterval(ms) == Round(60000, ms)

\* Mutant of TapBpm: the tempo is not clamped.
TapBpmUnclamped(interval) ==
    IF interval <= 0 THEN MaxBpm ELSE Round(BeatUnits, interval)

\* Mutant of TapBpm: the quotient is truncated, not rounded.
TapBpmTruncated(interval) ==
    IF interval <= 0 THEN MaxBpm
    ELSE Max(MinTapBpm, Min(MaxBpm, BeatUnits \div interval))

\* Mutant of DoubleBpm: no upper clamp.
DoubleBpmUnclamped(bpm) == 2 * bpm

\* Mutant of BeatInterval: half the interval.
BeatIntervalHalved(bpm) == BeatUnits \div (2 * bpm)

\* 60.0 / state.bpm, in units.
BeatInterval(bpm) == BeatUnits \div bpm

\* Math.max(1, Math.round(state.bpm / 2))
HalfBpm(bpm) == Max(MinBpm, Round(bpm, 2))

\* Math.min(300, Math.round(state.bpm * 2))
DoubleBpm(bpm) == Min(MaxBpm, 2 * bpm)

\* Math.max(30, Math.min(300, Math.round(60 / interval))); 60 / 0 is Infinity,
\* which Math.min brings down to 300.
TapBpm(interval) ==
    IF interval <= 0 THEN MaxBpm
    ELSE Max(MinTapBpm, Min(MaxBpm, Round(BeatUnits, interval)))

\* parseInt(text, 10) for the texts the model types into the mute entry: the
\* value of the longest leading integer numeral, whatever follows it; NaN is the
\* result for a text with no leading integer.
NaN == 0 - 999
MuteInputs == {"0", "50", "100", "101", "-5", "abc", "50%"}
ParseInt(text) ==
    CASE text = "0" -> 0
      [] text = "50" -> 50
      [] text = "50%" -> 50
      [] text = "100" -> 100
      [] text = "101" -> 101
      [] text = "-5" -> 0 - 5
      [] OTHER -> NaN

\* Mutant of ValidPercent: no upper limit.
ValidPercentNoUpper(percent) == percent # NaN /\ percent >= 0

\* !isNaN(percent) && percent >= 0 && percent <= 100
\* (randomMuteProbability is kept as the percentage p, standing for p / 100)
ValidPercent(percent) == percent # NaN /\ percent >= 0 /\ percent <= 100

\* The values Math.random() returns, as percentages: a draw d stands for d / 100.
RandomDraws == {0, 50, 99}

\* setInterval hands out an id that no live timer has.
NewTimerId(live) == CHOOSE i \in (1..MaxTimers) \ live : \A j \in (1..MaxTimers) \ live : i <= j
CanSetInterval(live) == Cardinality(live) < MaxTimers

----------------------------------------------------------------------------
(* The initial state: const state = {...} and the page-load code *)

\* Mutant of InitialState: the page comes up at 120 BPM.
InitialStateAt120 ==
    [ bpm |-> 120,
      isRunning |-> FALSE,
      randomMuteProbability |-> 0,
      lastTapTime |-> NULL,
      tapCount |-> 0,
      intervalId |-> 0,
      nextNoteTime |-> 0 ]

InitialState ==
    [ bpm |-> 40,
      isRunning |-> FALSE,
      randomMuteProbability |-> 0,
      lastTapTime |-> NULL,
      tapCount |-> 0,
      intervalId |-> 0,                \* null
      nextNoteTime |-> 0 ]

\* unmuteIosAudio(): on an iOS device both channels start blocked and the
\* user-activation listeners are installed; elsewhere it returns at once.
\* audio: an <audio> element exists; plays: play() promises not yet settled;
\* htmlAttempts / webAttempts: createHtmlAudio / createWebAudio calls so far;
\* event: the user-activation event handled last.
unmuteIosAudio(isIos) ==
    [ htmlAudioState |-> "blocked",
      webAudioState |-> "blocked",
      listeners |-> IF isIos THEN "installed" ELSE "none",
      audio |-> FALSE,
      context |-> "null",
      plays |-> 0,
      htmlAttempts |-> 0,
      webAttempts |-> 0,
      event |-> "none" ]

\* No request has been answered yet.
NoResponse == [code |-> 0, path |-> <<>>, read |-> FALSE]

NoWake == [kind |-> "none", at |-> 0]
NoGap == [after |-> "none", since |-> 0]

\* main: initAudio() runs at page load.  On iOS it only registers the gesture
\* listeners; elsewhere it creates the context at once (which the browser hands
\* out suspended or running), or fails and leaves audioContext null.
\* public: nothing is created before the first start().
Init ==
    /\ impl \in {"main", "public"}
    /\ ios \in (IF impl = "main" THEN BOOLEAN ELSE {FALSE})
    /\ audioContext \in (IF impl = "main" /\ ~ios THEN {"null", "suspended", "running"} ELSE {"null"})
    /\ audioInitialized = (impl = "main" /\ ~ios /\ audioContext # "null")
    /\ currentTime = 0
    /\ state = InitialState
    /\ timers = {}
    /\ pendingResume = 0
    /\ iosCreate = "idle"
    /\ randomInputOpen = FALSE
    /\ clicks = <<>>
    /\ lastClick = NULL
    /\ wake = NoWake
    /\ gap = NoGap
    /\ userStopped = FALSE
    /\ threw = FALSE
    /\ confirmed = ""
    /\ status = (IF state.isRunning THEN "RUNNING" ELSE "STOPPED")
    /\ intervalMs = NULL
    /\ bpmOut = NULL
    /\ reqUrl = <<>>
    /\ res = NoResponse
    /\ unmute = unmuteIosAudio(impl = "main" /\ ios)
    /\ events = 0
    /\ last = "init"

----------------------------------------------------------------------------
(* The functions of the scripts, as operators on the machine                *)
(*   m = [st, tm, ctx, ini, pend, wake, err, txt, ui]                       *)
(* st: the state object, tm: live timers, ctx: audioContext, ini:           *)
(* audioInitialized, pend: pending resume promises of start(), wake: the    *)
(* last startMetronome / scheduler run (bookkeeping for the properties),    *)
(* err: the handler has thrown (reading currentTime of a null context),     *)
(* txt: the text the handler has read from the mute entry or prompt(),      *)
(* ui: the text of the status element.                                      *)

Machine ==
    [ st |-> state, tm |-> timers, ctx |-> audioContext, ini |-> audioInitialized,
      pend |-> pendingResume, wake |-> wake, err |-> FALSE, txt |-> "", ui |-> status ]

SetMachine(m) ==
    /\ state' = m.st
    /\ timers' = m.tm
    /\ audioContext' = m.ctx
    /\ audioInitialized' = m.ini
    /\ pendingResume' = m.pend
    /\ wake' = m.wake
    /\ threw' = m.err
    /\ confirmed' = m.txt
    /\ status' = m.ui

\* updateUI(): the text written to the status element.  main tells running with
\* the audio output ready from running without; public has one text for both.
StatusText(m) ==
    IF ~m.st.isRunning THEN "STOPPED"
    ELSE IF impl = "main" /\ ~(m.ini /\ m.ctx = "running") THEN "RUNNING (NO AUDIO - TAP TO ENABLE)"
    ELSE "RUNNING"

updateUI(m) == [m EXCEPT !.ui = StatusText(m)]

\* Mutant of stop: a pending first tap is dropped.
stopClearsTaps(m) ==
    updateUI([m EXCEPT !.st.isRunning = FALSE,
                       !.st.intervalId = 0,
                       !.st.tapCount = 0,
                       !.st.lastTapTime = NULL,
                       !.tm = IF m.st.intervalId # 0 THEN @ \ {m.st.intervalId} ELSE @,
                       !.wake = NoWake])

\* Mutant of stop: the timer is cleared but the handle is kept.
stopKeepsHandle(m) ==
    updateUI([m EXCEPT !.st.isRunning = FALSE,
                       !.tm = IF m.st.intervalId # 0 THEN @ \ {m.st.intervalId} ELSE @,
                       !.wake = NoWake])

\* stop(): isRunning = false; clearInterval(intervalId) and intervalId = null
\* when intervalId is set.  (main and public are the same.)
stop(m) ==
    updateUI([m EXCEPT !.st.isRunning = FALSE,
                       !.st.intervalId = 0,
                       !.tm = IF m.st.intervalId # 0 THEN @ \ {m.st.intervalId} ELSE @,
                       !.wake = NoWake])

\* main startMetronome()
startMetronome(m, now) ==
    updateUI([m EXCEPT !.st.isRunning = TRUE,
                       !.st.nextNoteTime = IF m.ctx # "null" THEN now + StartDelay ELSE @,
                       !.st.intervalId = NewTimerId(m.tm),
                       !.tm = @ \cup {NewTimerId(m.tm)},
                       !.wake = [kind |-> "start", at |-> now]])

\* Mutant of start: the isRunning guard is missing.
startUnguarded(m, now) ==
    IF ios /\ m.ctx = "null" THEN m
    ELSE IF m.ctx = "suspended" THEN [m EXCEPT !.pend = @ + 1]
    ELSE startMetronome(m, now)

\* Mutant of start: a suspended context is not waited for.
startNoWait(m, now) ==
    IF m.st.isRunning THEN m
    ELSE IF ios /\ m.ctx = "null" THEN m
    ELSE startMetronome(m, now)

\* main start(): returns at once when running, or on iOS without a context;
\* with a suspended context it calls resume() and starts when that settles.
start(m, now) ==
    IF m.st.isRunning THEN m
    ELSE IF ios /\ m.ctx = "null" THEN m
    ELSE IF m.ctx = "suspended" THEN [m EXCEPT !.pend = @ + 1]
    ELSE startMetronome(m, now)

\* What start() needs from the bounds of the model.
startWithinBounds(m) ==
    \/ m.st.isRunning
    \/ ios /\ m.ctx = "null"
    \/ m.ctx = "suspended" /\ m.pend < MaxPending
    \/ m.ctx # "suspended" /\ CanSetInterval(m.tm)

\* public initAudio(): made is "null" when new AudioContext() throws.
pub_initAudio(m, made) == [m EXCEPT !.ctx = made]

\* public start(): with no context after initAudio(), reading
\* audioContext.currentTime throws once isRunning has been set.
pub_start(m, now, made) ==
    IF m.st.isRunning THEN m
    ELSE LET a == IF m.ctx = "null" THEN pub_initAudio(m, made) ELSE m
         IN  IF a.ctx = "null"
             THEN [a EXCEPT !.st.isRunning = TRUE, !.err = TRUE]
             ELSE updateUI([a EXCEPT !.st.isRunning = TRUE,
                                     !.st.nextNoteTime = now + StartDelay,
                                     !.st.intervalId = NewTimerId(a.tm),
                                     !.tm = @ \cup {NewTimerId(a.tm)},
                                     !.wake = [kind |-> "start", at |-> now]])

\* Mutant of handleTapTempo: the second tap does not reset tapCount.
handleTapTempoNoReset(m, now) ==
    IF ~m.st.isRunning THEN m
    ELSE IF m.ctx = "null" THEN [m EXCEPT !.err = TRUE]
    ELSE IF m.st.tapCount + 1 = 1
         THEN [m EXCEPT !.st.tapCount = 1, !.st.lastTapTime = now]
    ELSE IF m.st.tapCount + 1 = 2
         THEN updateUI([m EXCEPT !.st.bpm = TapBpm(now - m.st.lastTapTime), !.st.tapCount = 2])
    ELSE [m EXCEPT !.st.tapCount = @ + 1]

\* main handleTapTempo(); reading audioContext.currentTime throws with no context.
handleTapTempo(m, now) ==
    IF ~m.st.isRunning THEN m
    ELSE IF m.ctx = "null" THEN [m EXCEPT !.err = TRUE]
    ELSE IF m.st.tapCount + 1 = 1
         THEN [m EXCEPT !.st.tapCount = 1, !.st.lastTapTime = now]
    ELSE IF m.st.tapCount + 1 = 2
         THEN updateUI([m EXCEPT !.st.bpm = TapBpm(now - m.st.lastTapTime), !.st.tapCount = 0])
    ELSE [m EXCEPT !.st.tapCount = @ + 1]

\* public handleTapTempo(): the second tap restarts the metronome.
pub_handleTapTempo(m, now, made) ==
    IF ~m.st.isRunning THEN m
    ELSE IF m.ctx = "null" THEN [m EXCEPT !.err = TRUE]
    ELSE IF m.st.tapCount + 1 = 1
         THEN [m EXCEPT !.st.tapCount = 1, !.st.lastTapTime = now]
    ELSE IF m.st.tapCount + 1 = 2
         THEN LET t == [m EXCEPT !.st.bpm = TapBpm(now - m.st.lastTapTime)]
                  r == pub_start(stop(t), now, made)
              IN  [r EXCEPT !.st.tapCount = 0]
    ELSE [m EXCEPT !.st.tapCount = @ + 1]

\* Mutant of keyH: the isRunning guard is missing.
keyHUnguarded(m) == updateUI([m EXCEPT !.st.bpm = HalfBpm(@)])

\* case 'KeyH' / case 'KeyD' of the keydown handlers
keyH(m) == IF m.st.isRunning THEN updateUI([m EXCEPT !.st.bpm = HalfBpm(@)]) ELSE m
keyD(m) == IF m.st.isRunning THEN updateUI([m EXCEPT !.st.bpm = DoubleBpm(@)]) ELSE m

\* Mutant of pub_keyH: the tempo is changed without the restart.
pub_keyHNoRestart(m, now, made) ==
    IF m.st.isRunning THEN updateUI([m EXCEPT !.st.bpm = HalfBpm(@)]) ELSE m

pub_keyH(m, now, made) ==
    IF m.st.isRunning
    THEN pub_start(stop([m EXCEPT !.st.bpm = HalfBpm(@)]), now, made)
    ELSE m

pub_keyD(m, now, made) ==
    IF m.st.isRunning
    THEN pub_start(stop([m EXCEPT !.st.bpm = DoubleBpm(@)]), now, made)
    ELSE m

\* applyRandomMuting() (main) and the body of handleRandomMuting() (public);
\* main calls updateUI() in any case, public only after a valid entry.
applyRandomMuting(m, text) ==
    IF ValidPercent(ParseInt(text))
    THEN updateUI([m EXCEPT !.st.randomMuteProbability = ParseInt(text), !.txt = text])
    ELSE IF impl = "main" THEN updateUI([m EXCEPT !.txt = text])
    ELSE [m EXCEPT !.txt = text]

\* Mutant of playClick: the draw is compared with <=.
playClickInclusive(m, draw) ==
    IF m.ctx = "null" THEN "noaudio"
    ELSE IF impl = "main" /\ ~m.ini THEN "noaudio"
    ELSE IF impl = "main" /\ m.ctx = "suspended" THEN "suspended"
    ELSE IF m.st.randomMuteProbability > 0 /\ draw <= m.st.randomMuteProbability THEN "muted"
    ELSE "played"

\* playClick(time): what becomes of the call.  main drops it without an
\* initialized context or with a suspended one; public only without a context.
playClick(m, draw) ==
    IF m.ctx = "null" THEN "noaudio"
    ELSE IF impl = "main" /\ ~m.ini THEN "noaudio"
    ELSE IF impl = "main" /\ m.ctx = "suspended" THEN "suspended"
    ELSE IF m.st.randomMuteProbability > 0 /\ draw < m.st.randomMuteProbability THEN "muted"
    ELSE "played"

\* The draws playClick can see: Math.random() is only called when the context
\* is ready and randomMuteProbability > 0 (&& does not evaluate it otherwise).
MathRandom(m) ==
    IF playClick(m, NULL) \in {"noaudio", "suspended"} \/ m.st.randomMuteProbability = 0
    THEN {NULL}
    ELSE RandomDraws

\* Mutant of schedulerLoop: the loop condition written with <=.
RECURSIVE schedulerLoopInclusive(_, _, _)
schedulerLoopInclusive(s, now, acc) ==
    IF s.nextNoteTime <= now + scheduleAheadTime
    THEN schedulerLoopInclusive([s EXCEPT !.nextNoteTime = @ + BeatInterval(s.bpm)], now,
                                Append(acc, s.nextNoteTime))
    ELSE [st |-> s, times |-> acc]

\* Mutant of schedulerLoop: no look-ahead, a beat is scheduled once it is due.
RECURSIVE schedulerLoopNoLookahead(_, _, _)
schedulerLoopNoLookahead(s, now, acc) ==
    IF s.nextNoteTime < now
    THEN schedulerLoopNoLookahead([s EXCEPT !.nextNoteTime = @ + BeatInterval(s.bpm)], now,
                                  Append(acc, s.nextNoteTime))
    ELSE [st |-> s, times |-> acc]

\* Mutant of schedulerLoop: at most one beat per timer callback (if for while).
schedulerLoopOnce(s, now, acc) ==
    IF s.nextNoteTime < now + scheduleAheadTime
    THEN [st |-> [s EXCEPT !.nextNoteTime = @ + BeatInterval(s.bpm)],
          times |-> Append(acc, s.nextNoteTime)]
    ELSE [st |-> s, times |-> acc]

\* scheduler(): the while loop.  acc collects the timestamps handed to playClick.
RECURSIVE schedulerLoop(_, _, _)
schedulerLoop(s, now, acc) ==
    IF s.nextNoteTime < now + scheduleAheadTime
    THEN schedulerLoop([s EXCEPT !.nextNoteTime = @ + BeatInterval(s.bpm)], now,
                       Append(acc, s.nextNoteTime))
    ELSE [st |-> s, times |-> acc]

scheduler(s, now) == schedulerLoop(s, now, <<>>)

\* timerLoop(): runs the scheduler when running; with no audio context the
\* scheduler throws on audioContext.currentTime before it does anything.
timerLoopRuns(m) == m.st.isRunning /\ m.ctx # "null"

\* main createAudioContext (the iOS gesture listener): made is what
\* new AudioContext() gives: "null" when it throws, else the context's state.
\* A context that is not suspended goes straight to onIOSAudioReady().
onIOSAudioReady(m, now) ==
    LET a == [m EXCEPT !.ini = TRUE]
    IN  updateUI(IF a.st.isRunning /\ a.st.intervalId = 0 THEN startMetronome(a, now) ELSE a)

createAudioContext(m, now, made) ==
    IF m.ctx # "null" \/ made = "null" THEN m
    ELSE IF made = "suspended" THEN [m EXCEPT !.ctx = "suspended"]
    ELSE onIOSAudioReady([m EXCEPT !.ctx = made], now)

----------------------------------------------------------------------------
(* Actions: one per event handler or callback.                              *)
(* The click handlers of the mobile buttons of main (start/stop, half, tap, *)
(* double, mute) run the same code as the keys Space, H, T, D and R past    *)
(* the mute-entry branch; a button can only be clicked with the entry       *)
(* closed, since the click first takes the focus from the entry (Blur).     *)
(* The key actions stand for both.                                          *)

Frame(label, m, calls) ==
    /\ last' = label
    /\ SetMachine(m)
    /\ clicks' = calls
    /\ lastClick' = IF calls = <<>> THEN lastClick ELSE calls[Len(calls)].time
    /\ UNCHANGED <<impl, ios, currentTime, intervalMs, bpmOut, reqUrl, res, unmute>>

\* A user command or an audio interruption: counted against MaxEvents.
Event(label, m) ==
    /\ events < MaxEvents
    /\ events' = events + 1
    /\ gap' = NoGap
    /\ Frame(label, m, <<>>)

\* A callback of the page (timer, promise): not counted.
Callback(label, m, calls) ==
    /\ Frame(label, m, calls)
    /\ UNCHANGED events

\* What new AudioContext() can give in public start(): it throws, or a context.
PubMade == {"null", "running"}
\* ... and in main createAudioContext on iOS.
IosMade == {"null", "suspended", "running"}

\* keydown Space, main
KeySpace ==
    /\ impl = "main"
    /\ IF randomInputOpen
       THEN /\ Event("space", Machine)
            /\ UNCHANGED <<iosCreate, userStopped, randomInputOpen>>
       ELSE IF ios /\ audioContext = "null"
       THEN \E made \in IosMade :
            /\ Event("space", createAudioContext(Machine, currentTime, made))
            /\ iosCreate' = (IF made = "null" THEN iosCreate
                             ELSE IF made = "suspended" THEN "awaiting" ELSE "done")
            /\ UNCHANGED <<userStopped, randomInputOpen>>
       ELSE IF state.isRunning
       THEN /\ Event("space", stop(Machine))
            /\ userStopped' = TRUE
            /\ UNCHANGED <<iosCreate, randomInputOpen>>
       ELSE /\ startWithinBounds(Machine)
            /\ Event("space", start(Machine, currentTime))
            /\ userStopped' = FALSE
            /\ UNCHANGED <<iosCreate, randomInputOpen>>

\* keydown Space, public
PubKeySpace ==
    /\ impl = "public"
    /\ IF state.isRunning
       THEN /\ Event("space", stop(Machine))
            /\ userStopped' = TRUE
       ELSE /\ \E made \in PubMade : Event("space", pub_start(Machine, currentTime, made))
            /\ userStopped' = FALSE
    /\ UNCHANGED <<iosCreate, randomInputOpen>>

\* keydown KeyT
KeyT ==
    /\ impl = "main"
    /\ Event("keyT", IF randomInputOpen THEN Machine ELSE handleTapTempo(Machine, currentTime))
    /\ UNCHANGED <<iosCreate, userStopped, randomInputOpen>>

PubKeyT ==
    /\ impl = "public"
    /\ \E made \in PubMade : Event("keyT", pub_handleTapTempo(Machine, currentTime, made))
    /\ UNCHANGED <<iosCreate, userStopped, randomInputOpen>>

\* keydown KeyH
KeyH ==
    /\ impl = "main"
    /\ Event("keyH", IF randomInputOpen THEN Machine ELSE keyH(Machine))
    /\ UNCHANGED <<iosCreate, userStopped, randomInputOpen>>

PubKeyH ==
    /\ impl = "public"
    /\ \E made \in PubMade : Event("keyH", pub_keyH(Machine, currentTime, made))
    /\ UNCHANGED <<iosCreate, userStopped, randomInputOpen>>

\* keydown KeyD
KeyD ==
    /\ impl = "main"
    /\ Event("keyD", IF randomInputOpen THEN Machine ELSE keyD(Machine))
    /\ UNCHANGED <<iosCreate, userStopped, randomInputOpen>>

PubKeyD ==
    /\ impl = "public"
    /\ \E made \in PubMade : Event("keyD", pub_keyD(Machine, currentTime, made))
    /\ UNCHANGED <<iosCreate, userStopped, randomInputOpen>>

\* keydown KeyR, main: handleRandomMuting() shows the entry field
KeyR ==
    /\ impl = "main"
    /\ Event("keyR", Machine)
    /\ randomInputOpen' = (randomInputOpen \/ state.isRunning)
    /\ UNCHANGED <<iosCreate, userStopped>>

\* keydown KeyR, public: handleRandomMuting() asks with prompt(); "cancel" is
\* the null it returns when the user cancels
PubKeyR(input) ==
    /\ impl = "public"
    /\ Event("keyR", IF state.isRunning /\ input # "cancel"
                     THEN applyRandomMuting(Machine, input) ELSE Machine)
    /\ UNCHANGED <<iosCreate, userStopped, randomInputOpen>>

\* keydown Enter while the entry is shown: applyRandomMuting()
KeyEnter(text) ==
    /\ impl = "main"
    /\ randomInputOpen
    /\ Event("enter", applyRandomMuting(Machine, text))
    /\ randomInputOpen' = FALSE
    /\ UNCHANGED <<iosCreate, userStopped>>

\* keydown Escape while the entry is shown
KeyEscape ==
    /\ impl = "main"
    /\ randomInputOpen
    /\ Event("escape", Machine)
    /\ randomInputOpen' = FALSE
    /\ UNCHANGED <<iosCreate, userStopped>>

\* blur of the entry field: applyRandomMuting()
Blur(text) ==
    /\ impl = "main"
    /\ randomInputOpen
    /\ Event("blur", applyRandomMuting(Machine, text))
    /\ randomInputOpen' = FALSE
    /\ UNCHANGED <<iosCreate, userStopped>>

\* A touch, a click or a key other than Space on the page of an iOS device with
\* no context yet: the createAudioContext listener runs (the keydown handler
\* itself does nothing then, the metronome cannot be running).
Gesture ==
    /\ impl = "main" /\ ios /\ audioContext = "null"
    /\ \E made \in IosMade :
        /\ Event("gesture", createAudioContext(Machine, currentTime, made))
        /\ iosCreate' = (IF made = "null" THEN iosCreate
                         ELSE IF made = "suspended" THEN "awaiting" ELSE "done")
    /\ UNCHANGED <<userStopped, randomInputOpen>>

\* The resume() awaited by createAudioContext settles; on success
\* onIOSAudioReady() runs, on failure the catch only logs.
IosCreateSettles(ok) ==
    /\ impl = "main" /\ iosCreate = "awaiting"
    /\ Callback("iosCreate",
             IF ok THEN onIOSAudioReady([Machine EXCEPT !.ctx = "running"], currentTime)
             ELSE Machine, <<>>)
    /\ iosCreate' = "done"
    /\ gap' = NoGap
    /\ UNCHANGED <<userStopped, randomInputOpen>>

\* A resume() promise of start() settles: then() sets audioInitialized and
\* calls startMetronome(); catch() calls startMetronome() as well.
ResumeSettles(ok) ==
    /\ impl = "main" /\ pendingResume > 0
    /\ CanSetInterval(timers)
    /\ LET m == [Machine EXCEPT !.pend = @ - 1,
                                !.ctx = IF ok THEN "running" ELSE @,
                                !.ini = IF ok THEN TRUE ELSE @]
       IN  Callback("resume", startMetronome(m, currentTime), <<>>)
    /\ gap' = NoGap
    /\ UNCHANGED <<iosCreate, userStopped, randomInputOpen>>

\* The browser suspends the context, or a resume() made without a
\* continuation (onstatechange, playClick, the iOS keydown) succeeds.
AudioStateChange ==
    /\ impl = "main" /\ audioContext # "null"
    /\ Event("audio", [Machine EXCEPT !.ctx = IF @ = "running" THEN "suspended" ELSE "running"])
    /\ UNCHANGED <<iosCreate, userStopped, randomInputOpen>>

\* A setInterval timer fires: timerLoop().
TimerFires(id) ==
    /\ id \in timers
    /\ IF timerLoopRuns(Machine)
       THEN LET r == scheduler(state, currentTime)
                n == Len(r.times)
            IN  /\ \E draws \in [1..n -> MathRandom(Machine)] :
                     Callback("tick",
                        [Machine EXCEPT !.st = r.st,
                                        !.wake = [kind |-> "tick", at |-> currentTime]],
                        [i \in 1..n |-> [time |-> r.times[i],
                                         out |-> playClick(Machine, draws[i]),
                                         draw |-> draws[i]]])
                /\ gap' = [after |-> wake.kind, since |-> currentTime - wake.at]
       ELSE /\ Callback("tick", [Machine EXCEPT !.err = state.isRunning], <<>>)
            /\ gap' = NoGap
    /\ UNCHANGED <<iosCreate, userStopped, randomInputOpen>>

\* The audio clock moves on; the clock of a suspended context stands still.
AdvanceClock ==
    /\ audioContext = "running"
    /\ currentTime < MaxClock * Quantum
    /\ currentTime' = currentTime + Quantum
    /\ last' = "clock"
    /\ clicks' = <<>>
    /\ gap' = NoGap
    /\ threw' = FALSE
    /\ confirmed' = ""
    /\ UNCHANGED <<impl, ios, audioContext, audioInitialized, state, timers, pendingResume,
                   iosCreate, randomInputOpen, lastClick, wake, userStopped, status,
                   intervalMs, bpmOut, reqUrl, res, unmute, events>>

\* start() and stop() called directly, as the tests do.
CallStart ==
    /\ IF impl = "main"
       THEN /\ startWithinBounds(Machine)
            /\ Event("callStart", start(Machine, currentTime))
       ELSE \E made \in PubMade : Event("callStart", pub_start(Machine, currentTime, made))
    /\ userStopped' = (userStopped /\ state.isRunning)
    /\ UNCHANGED <<iosCreate, randomInputOpen>>

CallStop ==
    /\ Event("callStop", stop(Machine))
    /\ userStopped' = TRUE
    /\ UNCHANGED <<iosCreate, randomInputOpen>>

Next ==
    \/ KeySpace
    \/ PubKeySpace
    \/ KeyT
    \/ PubKeyT
    \/ KeyH
    \/ PubKeyH
    \/ KeyD
    \/ PubKeyD
    \/ KeyR
    \/ \E input \in MuteInputs \cup {"cancel"} : PubKeyR(input)
    \/ \E text \in MuteInputs : KeyEnter(text)
    \/ KeyEscape
    \/ \E text \in MuteInputs : Blur(text)
    \/ Gesture
    \/ \E ok \in BOOLEAN : IosCreateSettles(ok)
    \/ \E ok \in BOOLEAN : ResumeSettles(ok)
    \/ AudioStateChange
    \/ \E id \in timers : TimerFires(id)
    \/ AdvanceClock

Spec == Init /\ [][Next]_vars

\* The same, with start() and stop() also called directly.
NextApi == Next \/ CallStart \/ CallStop

SpecApi == Init /\ [][NextApi]_vars

----------------------------------------------------------------------------
(* The tempo commands on sampled tempos *)

\* Tempos the metronome can have been brought to (every integer of 1..300 can
\* be reached from 40 by taps and halvings): the ends of the domain, odd
\* values, values whose double passes 300.
BpmSamples == {1, 2, 3, 40, 80, 199, 200, 300}

\* Time since the first tap of an open pair, in clock quanta: 0 s, 0.5 s,
\* 0.5625 s, 2 s, 3 s.
TapGaps == {0, 8, 9, 32, 48}

\* A metronome started at clock 0 that runs at a sampled tempo, its scheduler
\* up to date; either no tap is open (g = NULL), or the first tap of a pair was
\* made at clock 0 and g quanta have passed since.  Clock values only matter
\* by their differences.
RunningAt(b, g) ==
    scheduler([InitialState EXCEPT !.bpm = b,
                                   !.isRunning = TRUE,
                                   !.intervalId = 1,
                                   !.nextNoteTime = StartDelay,
                                   !.tapCount = IF g = NULL THEN 0 ELSE 1,
                                   !.lastTapTime = IF g = NULL THEN NULL ELSE 0],
              IF g = NULL THEN 0 ELSE g * Quantum).st

InitTempo ==
    /\ impl \in {"main", "public"}
    /\ ios = FALSE
    /\ audioContext = "running"
    /\ audioInitialized = (impl = "main")
    /\ \E b \in BpmSamples, g \in TapGaps \cup {NULL} :
          /\ currentTime = (IF g = NULL THEN 0 ELSE g * Quantum)
          /\ state = RunningAt(b, g)
          /\ lastClick = RunningAt(b, g).nextNoteTime - BeatInterval(b)
    /\ timers = {1}
    /\ pendingResume = 0
    /\ iosCreate = "idle"
    /\ randomInputOpen = FALSE
    /\ clicks = <<>>
    /\ wake = [kind |-> "tick", at |-> currentTime]
    /\ gap = NoGap
    /\ userStopped = FALSE
    /\ threw = FALSE
    /\ confirmed = ""
    /\ status = (IF state.isRunning THEN "RUNNING" ELSE "STOPPED")
    /\ intervalMs = NULL
    /\ bpmOut = NULL
    /\ reqUrl = <<>>
    /\ res = NoResponse
    /\ unmute = unmuteIosAudio(impl = "main" /\ ios)
    /\ events = 0
    /\ last = "init"

\* The toggle, the tempo and mute commands and the timer, at a standing clock.
NextTempo ==
    \/ KeySpace
    \/ PubKeySpace
    \/ KeyT
    \/ PubKeyT
    \/ KeyH
    \/ PubKeyH
    \/ KeyD
    \/ PubKeyD
    \/ KeyR
    \/ \E input \in MuteInputs \cup {"cancel"} : PubKeyR(input)
    \/ \E text \in MuteInputs : KeyEnter(text)
    \/ KeyEscape
    \/ \E text \in MuteInputs : Blur(text)
    \/ \E id \in timers : TimerFires(id)

SpecTempo == InitTempo /\ [][NextTempo]_vars

----------------------------------------------------------------------------
(* Properties *)

\* The values of the source, stated apart from the definitions above.
Ahead == Second \div 10                 \* 0.1 s
Delay == Second \div 20                 \* 0.05 s
Spacing(bpm) == BeatUnits \div bpm      \* 60 / bpm

\* The scheduler loop ran in the last step.
SchedulerRan == last = "tick" /\ gap # NoGap
SchedulerRuns == last' = "tick" /\ state.isRunning /\ audioContext # "null"

\* C1: a timer callback that finds the metronome running emits one playClick
\* call at nextNoteTime and adds 60/bpm, as long as nextNoteTime < now + 0.1:
\* the calls are at nextNoteTime, nextNoteTime + 60/bpm, ..., all below
\* now + 0.1, the cursor ends at or beyond now + 0.1 having moved by 60/bpm per
\* call, and with the cursor already there nothing is emitted or changed.
C1_OnTick ==
    [][ SchedulerRuns =>
          LET n == Len(clicks')
              step == Spacing(state.bpm)
              limit == currentTime + Ahead
          IN  /\ \A i \in 1..n : /\ clicks'[i].time = state.nextNoteTime + (i - 1) * step
                                 /\ clicks'[i].time < limit
              /\ state'.nextNoteTime = state.nextNoteTime + n * step
              /\ state'.nextNoteTime >= limit
              /\ state.nextNoteTime >= limit => n = 0 /\ state' = state
              /\ state' = [state EXCEPT !.nextNoteTime = state'.nextNoteTime]
              /\ step * state.bpm <= BeatUnits /\ BeatUnits < (step + 1) * state.bpm
      ]_vars

\* C1 witness: a scheduler run that went round the loop twice.
C1_Witness ==
    /\ SchedulerRan
    /\ Len(clicks) = 2
    /\ clicks[2].time = clicks[1].time + Spacing(state.bpm)
    /\ state.nextNoteTime >= currentTime + Ahead

\* C2 (as claimed): the timestamps handed to playClick are strictly increasing
\* over the whole run, whatever commands come between the timer callbacks.
C2_StrictlyIncreasing ==
    [][ last' = "tick" =>
          \A i \in 1..Len(clicks') :
              clicks'[i].time > (IF i = 1 THEN lastClick ELSE clicks'[i - 1].time)
      ]_vars

\* The cursor a scheduler run found on entry, and the time of the run before it.
EntryCursor == state.nextNoteTime - Len(clicks) * Spacing(state.bpm)
PreviousRun == currentTime - gap.since

\* A scheduler run that follows another run of the session, and found the
\* cursor less than one beat interval beyond that run's look-ahead window
\* (where that run left it, unless the tempo was raised in between).
FollowsRun ==
    /\ SchedulerRan /\ gap.after = "tick"
    /\ EntryCursor < PreviousRun + Ahead + Spacing(state.bpm)

\* C3 (as claimed): a scheduler run that comes two whole beat intervals after
\* the previous one emits exactly two calls, at nextNoteTime and
\* nextNoteTime + 60/bpm, not more than the whole intervals elapsed.
C3_ExactlyTwoAfterTwoIntervals ==
    (FollowsRun /\ gap.since \div Spacing(state.bpm) = 2)
    => /\ Len(clicks) = 2
       /\ clicks[1].time = EntryCursor
       /\ clicks[2].time = EntryCursor + Spacing(state.bpm)

\* C3 (amended): a scheduler run that comes exactly two beat intervals after the
\* previous one emits exactly two calls, at nextNoteTime and
\* nextNoteTime + 60/bpm; a run that comes later than that emits up to one call
\* more than the number of whole beat intervals elapsed, never more.
C3_CatchUp ==
    /\ (FollowsRun /\ gap.since = 2 * Spacing(state.bpm))
         => /\ Len(clicks) = 2
            /\ clicks[1].time = EntryCursor
            /\ clicks[2].time = EntryCursor + Spacing(state.bpm)
    /\ (SchedulerRan /\ gap.after = "tick")
         => Len(clicks) <= gap.since \div Spacing(state.bpm) + 1

\* C3 witness: a run exactly two beat intervals after the previous one has
\* emitted two calls one beat interval apart.
C3_Witness ==
    /\ FollowsRun
    /\ gap.since = 2 * Spacing(state.bpm)
    /\ Len(clicks) = 2
    /\ clicks[2].time = clicks[1].time + Spacing(state.bpm)

\* C4 (as claimed): once the user has stopped the metronome it is not running
\* and no timer callback emits a playClick call, until the user starts it again.
C4_StopIsFinal ==
    userStopped => ~state.isRunning /\ clicks = <<>>

\* start() is called by the step, with the metronome not running.
StartIssued ==
    /\ ~state.isRunning
    /\ \/ last' = "callStart"
       \/ last' = "space" /\ impl = "public"
       \/ last' = "space" /\ impl = "main" /\ ~randomInputOpen /\ ~(ios /\ audioContext = "null")

\* The effects C5 names: running, cursor at now + 0.05, exactly one new timer
\* whose handle is stored, bpm, mute probability and tap bookkeeping as before.
Started ==
    /\ state'.isRunning
    /\ state'.nextNoteTime = currentTime + Delay
    /\ state'.intervalId # 0 /\ state'.intervalId \notin timers
    /\ timers' = timers \cup {state'.intervalId}
    /\ state' = [state EXCEPT !.isRunning = TRUE,
                              !.nextNoteTime = state'.nextNoteTime,
                              !.intervalId = state'.intervalId]

C6_StartWhileRunning ==
    [][ (last' = "callStart" /\ state.isRunning)
          => UNCHANGED <<state, timers, pendingResume, audioContext, audioInitialized,
                         currentTime, wake, lastClick, iosCreate, randomInputOpen>>
      ]_vars

\* C6 witness: start() has been called in a session that has a changed tempo
\* and a scheduler run behind it, and the session goes on.
C6_Witness ==
    /\ last = "callStart"
    /\ state.isRunning
    /\ wake.kind = "tick"
    /\ state.bpm # 40

\* stop() is called by the step.
StopIssued ==
    \/ last' = "callStop"
    \/ last' = "space" /\ state.isRunning /\ impl = "public"
    \/ last' = "space" /\ state.isRunning /\ impl = "main" /\ ~randomInputOpen
         /\ ~(ios /\ audioContext = "null")

C8_HandleIffRunning ==
    state.isRunning <=> state.intervalId # 0

\* C9 (as claimed): while running (with its timer), nextNoteTime changes only
\* by the scheduler loop adding 60/bpm per emitted beat; no tempo command
\* lowers or resets it.
C9_OnlySchedulerMovesCursor ==
    [][ (state.isRunning /\ state.intervalId # 0 /\ state'.isRunning
           /\ state'.nextNoteTime # state.nextNoteTime)
          => /\ last' = "tick"
             /\ state'.nextNoteTime = state.nextNoteTime + Len(clicks') * Spacing(state.bpm)
      ]_vars

\* C10 (as claimed): when the scheduler runs less than 0.1 s after the start or
\* after its previous run, no playClick call is given a timestamp earlier than
\* the audio clock.
C10_WithinLookahead ==
    (SchedulerRan /\ gap.since < Ahead)
    => \A i \in 1..Len(clicks) : clicks[i].time >= currentTime

\* C10 (amended): when the scheduler runs no later than 0.05 s after the start,
\* or less than 0.1 s after its previous run, no playClick call is given a
\* timestamp earlier than the audio clock.
C10_QueuedBeforeDue ==
    (SchedulerRan /\ \/ gap.after = "start" /\ gap.since <= Delay
                     \/ gap.after = "tick" /\ gap.since < Ahead)
    => \A i \in 1..Len(clicks) : clicks[i].time >= currentTime

\* C10 witness: a run one clock quantum after the previous run has emitted a
\* beat that is not yet due.
C10_Witness ==
    /\ SchedulerRan /\ gap.after = "tick"
    /\ gap.since > 0 /\ gap.since < Ahead
    /\ Len(clicks) >= 1
    /\ clicks[1].time >= currentTime

\* A tempo command reaches a running metronome: half, double, or the tap that
\* completes a pair.
TempoCommand ==
    /\ state.isRunning /\ state.intervalId # 0
    /\ \/ last' \in {"keyH", "keyD"}
       \/ last' = "keyT" /\ state.tapCount = 1 /\ state'.tapCount = 0

\* C11 (as claimed): a tempo command changes only bpm (and the tap count of the
\* pair): nextNoteTime, the timer and its handle are as before, nothing is
\* emitted; the next scheduler run emits its first beat at that nextNoteTime
\* and steps by 60/bpm of the new tempo.
C11_TempoChangeOnlyBpm ==
    [][ /\ TempoCommand
          => /\ state' = [state EXCEPT !.bpm = state'.bpm, !.tapCount = state'.tapCount]
             /\ timers' = timers
             /\ clicks' = <<>>
        /\ (SchedulerRuns /\ Len(clicks') >= 1)
          => /\ clicks'[1].time = state.nextNoteTime
             /\ state'.nextNoteTime = state.nextNoteTime + Len(clicks') * Spacing(state.bpm)
      ]_vars

\* The audio output is unavailable: no context could be created, or it is not
\* initialized, or it is suspended.
AudioUnavailable ==
    \/ audioContext = "null"
    \/ audioContext = "suspended"
    \/ impl = "main" /\ ~audioInitialized

\* C12 (as claimed): with the audio output unavailable, a timer callback of the
\* running metronome still moves nextNoteTime past now + 0.1 and its playClick
\* calls are dropped; no start and no timer callback throws or leaves isRunning
\* and the timer handle half-updated.
C12_AudioUnavailable ==
    [][ /\ (last' = "tick" /\ state.isRunning /\ AudioUnavailable)
          => /\ state'.nextNoteTime >= currentTime + Ahead
             /\ \A i \in 1..Len(clicks') : clicks'[i].out # "played"
        /\ (last' \in {"tick", "space", "resume"})
          => /\ ~threw'
             /\ state'.isRunning <=> state'.intervalId # 0
      ]_vars

\* The tap that completes a pair (with an audio clock to read).
PairCompleted ==
    /\ last' = "keyT" /\ state.isRunning /\ audioContext # "null"
    /\ state.tapCount = 1 /\ state'.tapCount = 0

\* C13: bpm is an integer of 1..300 in every state the commands lead to, and of
\* 30..300 right after the tap that completes a pair.
C13_BpmDomain ==
    [][ /\ state'.bpm \in 1..300
        /\ PairCompleted => state'.bpm \in 30..300
      ]_vars

\* C13 witness: a pair of taps 3 s apart has just been completed and has left
\* the tempo at the lower end of the tap range.
C13_Witness ==
    /\ last = "keyT"
    /\ state.tapCount = 0
    /\ currentTime - state.lastTapTime = 3 * Second
    /\ state.bpm = 30

\* Half or double reaches a running metronome (main: with no mute entry open).
HalfIssued == last' = "keyH" /\ state.isRunning /\ ~randomInputOpen
DoubleIssued == last' = "keyD" /\ state.isRunning /\ ~randomInputOpen

\* C14: while running, double sets bpm to min(300, 2 * bpm) and half sets it to
\* max(1, round(bpm / 2)) with halves rounded up: 40 doubles to 80, 80 halves to
\* 40, 200 doubles to 300, 2 halves to 1 and 1 halves to 1.
C14_HalfDouble ==
    [][ /\ DoubleIssued
          => /\ state'.bpm = (IF 2 * state.bpm > 300 THEN 300 ELSE 2 * state.bpm)
             /\ state.bpm = 40 => state'.bpm = 80
             /\ state.bpm = 200 => state'.bpm = 300
        /\ HalfIssued
          => /\ state'.bpm = (state.bpm + 1) \div 2
             /\ state'.bpm >= 1
             /\ state.bpm = 80 => state'.bpm = 40
             /\ state.bpm = 2 => state'.bpm = 1
             /\ state.bpm = 1 => state'.bpm = 1
      ]_vars

\* C14 witness: the first command of a running metronome was a double, and it
\* has left the tempo at the upper clamp.
C14_Witness ==
    /\ last = "keyD"
    /\ state.isRunning
    /\ state.bpm = 300
    /\ events = 1

\* C15: while isRunning is false, half, double and tap change nothing: bpm,
\* tapCount, the tap anchor and all the rest of the state object are as before,
\* no timer is made or cleared, no start is pending, nothing is emitted.
C15_TempoCommandsNeedRunning ==
    [][ (~state.isRunning /\ last' \in {"keyT", "keyH", "keyD"})
          => /\ state' = state
             /\ clicks' = <<>>
             /\ UNCHANGED <<timers, pendingResume, currentTime, lastClick, randomInputOpen>>
      ]_vars

\* C15 witness: a tempo command has been given to a metronome that was started
\* and stopped before, and it is still stopped.
C15_Witness ==
    /\ last \in {"keyT", "keyH", "keyD"}
    /\ ~state.isRunning
    /\ userStopped
    /\ state.nextNoteTime > 0
    /\ state.bpm = 40

\* The start/stop toggle is issued with no mute entry open.
ToggleIssued == last' = "space" /\ ~randomInputOpen

\* C16 (as claimed): a toggle issued while stopped starts the metronome, at
\* once or by a resume() whose settlement starts it; a toggle issued while
\* running stops it; also when no audio context exists yet.
C16_ToggleAlwaysAllowed ==
    [][ ToggleIssued =>
          IF state.isRunning
          THEN ~state'.isRunning
          ELSE state'.isRunning \/ pendingResume' = pendingResume + 1
      ]_vars

\* A tap reaches a running metronome that has an audio clock to read.
TapIssued ==
    /\ last' = "keyT" /\ state.isRunning /\ audioContext # "null"
    /\ ~randomInputOpen

\* C17: the first tap of a pair stores the audio clock as the anchor and sets
\* tapCount to 1, bpm unchanged; the second sets bpm to round(60 / interval)
\* clamped to 30..300, interval = now - anchor (300 for an interval of 0, where
\* 60 / interval is infinite), and sets tapCount to 0.  Two taps 0.5 s apart
\* give bpm 120 and tapCount 0.
C17_TapTempo ==
    [][ /\ (TapIssued /\ state.tapCount = 0)
          => /\ state'.lastTapTime = currentTime
             /\ state'.tapCount = 1
             /\ state'.bpm = state.bpm
        /\ (TapIssued /\ state.tapCount = 1)
          => LET interval == currentTime - state.lastTapTime
                 rounded == (2 * BeatUnits + interval) \div (2 * interval)
             IN  /\ state'.tapCount = 0
                 /\ interval > 0 /\ rounded < 30 => state'.bpm = 30
                 /\ interval > 0 /\ rounded > 300 => state'.bpm = 300
                 /\ interval > 0 /\ rounded \in 30..300 => state'.bpm = rounded
                 /\ interval = 0 => state'.bpm = 300
                 /\ 2 * interval = Second => state'.bpm = 120
      ]_vars

\* C17 witness: the second of two taps 0.5 s apart has been processed.
C17_Witness ==
    /\ last = "keyT"
    /\ state.isRunning
    /\ state.tapCount = 0
    /\ 2 * (currentTime - state.lastTapTime) = Second
    /\ state.bpm = 120

\* C18 (as claimed): a second tap at an interval of 0 (or less) from the
\* anchor is ignored as a second tap: bpm is unchanged and the tap counts as a
\* fresh first tap (anchor = now, tapCount = 1).
C18_ZeroIntervalIgnored ==
    [][ (TapIssued /\ state.tapCount = 1 /\ currentTime - state.lastTapTime <= 0)
          => /\ state'.bpm = state.bpm
             /\ state'.tapCount = 1
             /\ state'.lastTapTime = currentTime
      ]_vars

\* C19 (as claimed): the tap anchor is set only while tapCount is 1.
C19_AnchorOnlyWhileOpen ==
    state.lastTapTime # NULL => state.tapCount = 1

\* C20: between event handlers tapCount is 0 or 1, whatever commands are
\* interleaved with the taps.
C20_TapCountZeroOrOne ==
    state.tapCount \in {0, 1}

\* C20 witness: a pair of taps 0.5 s apart, with a mute command between the
\* two, has been completed, and tapCount is back at 0.
C20_Witness ==
    /\ last = "keyT"
    /\ state.tapCount = 0
    /\ 2 * (currentTime - state.lastTapTime) = Second
    /\ state.randomMuteProbability = 50

\* The texts that are integer numerals, and the integers they denote.
Numerals == {"0", "50", "100", "101", "-5"}
Denotes(text) ==
    CASE text = "0" -> 0
      [] text = "50" -> 50
      [] text = "100" -> 100
      [] text = "101" -> 101
      [] text = "-5" -> 0 - 5

\* The last handler confirmed a mute entry (Enter, blur, or an answered prompt).
MuteConfirmed == confirmed # ""

\* C21: confirming an integer p of 0..100 stores the mute probability p / 100
\* (kept as the percentage p); the mute probability is within [0, 1] in every
\* state, and 0 initially.
C21_MuteProbability ==
    /\ state.randomMuteProbability = 0
    /\ [][ /\ state'.randomMuteProbability \in 0..100
           /\ (confirmed' \in Numerals /\ Denotes(confirmed') \in 0..100)
                => state'.randomMuteProbability = Denotes(confirmed')
         ]_vars

\* C21 witness: 100 has just been confirmed and the mute probability is 1.
C21_Witness ==
    /\ MuteConfirmed
    /\ confirmed = "100"
    /\ state.randomMuteProbability = 100

\* C22 (as claimed): confirming a value that is not a number, or a number below
\* 0 or above 100, changes nothing: mute probability, bpm, isRunning,
\* nextNoteTime and the tap bookkeeping are as they were.
C22_InvalidMuteRejected ==
    [][ (confirmed' # "" /\ (confirmed' \notin Numerals \/ Denotes(confirmed') \notin 0..100))
          => state' = state
      ]_vars

\* The audio output is ready, so that a playClick call gets as far as the mute
\* check.
AudioReady == ~AudioUnavailable

\* C23: per beat, with mute probability 0 no beat is suppressed, with 1 every
\* beat is suppressed, and with 0 < p < 1 a beat is suppressed exactly when its
\* own draw is < p (draws and p as percentages); suppression changes neither
\* nextNoteTime nor the number of loop iterations, which follow from the clock
\* alone.
C23_MutePerBeat ==
    [][ SchedulerRuns =>
          LET n == Len(clicks')
              p == state.randomMuteProbability
          IN  /\ \A i \in 1..n :
                   /\ p = 0 => clicks'[i].out # "muted"
                   /\ (p = 100 /\ AudioReady) => clicks'[i].out = "muted"
                   /\ (p > 0 /\ AudioReady)
                        => /\ clicks'[i].draw \in 0..99
                           /\ clicks'[i].out = "muted" <=> clicks'[i].draw < p
                           /\ clicks'[i].out \in {"muted", "played"}
              /\ state'.nextNoteTime = state.nextNoteTime + n * Spacing(state.bpm)
              /\ state'.nextNoteTime >= currentTime + Ahead
              /\ state'.nextNoteTime - Spacing(state.bpm) < currentTime + Ahead
                   \/ n = 0
      ]_vars

\* C23 witness: with mute probability 0.5 a beat whose draw was 0.5 has been
\* played.
C23_Witness ==
    /\ SchedulerRan
    /\ state.randomMuteProbability = 50
    /\ Len(clicks) >= 1
    /\ clicks[1].draw = 50
    /\ clicks[1].out = "played"


----------------------------------------------------------------------------
(* The status display                                                       *)

\* C24 (as claimed): whenever the metronome is running, with its timer, and the
\* audio output is unavailable (no context, not initialized, or a context that
\* is not running), the status element shows the no-audio text and not plain
\* "RUNNING", also after the context has changed state on its own.
C24_StatusShowsNoAudio ==
    (state.isRunning /\ state.intervalId # 0 /\ AudioUnavailable)
        => status = "RUNNING (NO AUDIO - TAP TO ENABLE)"


----------------------------------------------------------------------------
(* The utility function calculateBpmFromInterval, called on its own         *)

Intervals == (1..MaxIntervalMs) \cup {60000}

\* A call calculateBpmFromInterval(ms) from outside the page (the tests).
Calculate(ms) ==
    /\ intervalMs' = ms
    /\ bpmOut' = calculateBpmFromInterval(ms)
    /\ UNCHANGED <<impl, ios, audioContext, audioInitialized, currentTime, state, timers,
                   pendingResume, iosCreate, randomInputOpen, clicks, lastClick, wake,
                   gap, userStopped, threw, confirmed, status, reqUrl, res, unmute, events, last>>

NextCalc == \E ms \in Intervals : Calculate(ms)

SpecCalc == Init /\ [][NextCalc]_vars

\* C25: calculateBpmFromInterval(ms) is 60000 / ms rounded to the nearest
\* integer, halves upwards, for every positive integer ms: 500 -> 120,
\* 1000 -> 60, 250 -> 240, 333 -> 180, 1 -> 60000, 60000 -> 1; the result is
\* not clamped to any tempo range.
C25_CalculateBpm ==
    intervalMs # NULL =>
        /\ (2 * bpmOut - 1) * intervalMs <= 2 * 60000
        /\ 2 * 60000 < (2 * bpmOut + 1) * intervalMs
        /\ intervalMs = 500 => bpmOut = 120
        /\ intervalMs = 1000 => bpmOut = 60
        /\ intervalMs = 250 => bpmOut = 240
        /\ intervalMs = 333 => bpmOut = 180
        /\ intervalMs = 1 => bpmOut = 60000
        /\ intervalMs = 60000 => bpmOut = 1

\* C25 witness: the function has been called with 1 ms and has returned 60000,
\* far above the 300 of the tempo commands.
C25_Witness == intervalMs = 1 /\ bpmOut = 60000


----------------------------------------------------------------------------
(* The initial state                                                        *)

\* isRunning is set by the step: by a start command, or by the settlement of a
\* resume() that a start command is waiting for.
StartTakesEffect ==
    \/ StartIssued
    \/ last' = "resume" /\ pendingResume > 0

\* C26: the page comes up with bpm 40, not running, mute probability 0,
\* tapCount 0, no tap anchor and no timer handle; playClick is called only while
\* running, and nothing but a start command (at once, or through the resume()
\* it waits for) sets isRunning: no playClick call precedes the first start.
C26_InitialState ==
    /\ state.bpm = 40
    /\ ~state.isRunning
    /\ state.randomMuteProbability = 0
    /\ state.tapCount = 0
    /\ state.lastTapTime = NULL
    /\ state.intervalId = 0
    /\ timers = {} /\ pendingResume = 0
    /\ clicks = <<>> /\ lastClick = NULL
    /\ [][ /\ clicks' # <<>> => state.isRunning
           /\ (~state.isRunning /\ state'.isRunning) => StartTakesEffect
           /\ pendingResume' > pendingResume => StartIssued
         ]_vars

\* C26 witness: one command has been issued, the start, and the first timer
\* callback after it has made the first playClick call.
C26_Witness ==
    /\ events = 1
    /\ state.isRunning
    /\ last = "tick"
    /\ Len(clicks) = 1
    /\ lastClick = clicks[1].time


----------------------------------------------------------------------------
(* Termination of the scheduler                                             *)

\* C27: a timer callback that runs the scheduler finds a tempo in 1..300, so a
\* positive beat interval, and makes at most
\* (time since the previous wake-up + look-ahead) / (60 / bpm) + 1 iterations
\* of the loop (one playClick call each); the previous wake-up is the start or
\* the previous timer callback.
C27_LoopBounded ==
    [][ SchedulerRuns =>
          /\ state.bpm \in 1..300
          /\ Spacing(state.bpm) > 0
          /\ gap'.after \in {"start", "tick"}
          /\ (Len(clicks') - 1) * Spacing(state.bpm) <= gap'.since + Ahead
      ]_vars

\* C27 witness: at 300 BPM a timer callback that came 0.5 s after the previous
\* one has run the loop more than once.
C27_Witness ==
    /\ SchedulerRan
    /\ state.bpm = 300
    /\ gap.after = "tick"
    /\ gap.since >= Second \div 2
    /\ Len(clicks) >= 2


----------------------------------------------------------------------------
(* The static file server (server.js)                                       *)
(* A path is a sequence of segments and a segment a sequence of pieces of   *)
(* text, so that "public2" begins with "public" as it does as a string.     *)

App == <<"app">>                  \* __dirname
Public == <<"public">>
Public2 == <<"public", "2">>      \* a sibling directory of public
DotDot == <<"..">>
IndexHtml == <<"index.html">>
SecretTxt == <<"secret.txt">>

\* PUBLIC_DIR = path.join(__dirname, 'public')
PUBLIC_DIR == <<App, Public>>

\* The directories and files on the disk of the server.
Dirs == {<<>>, <<App>>, <<App, Public>>, <<App, Public2>>}
Files == {<<App, Public, IndexHtml>>, <<App, Public2, SecretTxt>>, <<App, SecretTxt>>}

\* The request URLs: "/" and every path of 1..MaxUrlSegments segments.
UrlSegments == {DotDot, Public, Public2, IndexHtml, SecretTxt}
Urls == UNION {[1..n -> UrlSegments] : n \in 0..MaxUrlSegments}

\* path.normalize: ".." drops the segment before it (none at the root).
RECURSIVE Normalize(_, _)
Normalize(segs, acc) ==
    IF segs = <<>> THEN acc
    ELSE IF Head(segs) = DotDot
         THEN Normalize(Tail(segs), IF acc = <<>> THEN acc ELSE SubSeq(acc, 1, Len(acc) - 1))
    ELSE Normalize(Tail(segs), Append(acc, Head(segs)))

\* path.join(a, b)
PathJoin(a, b) == Normalize(a \o b, <<>>)

\* The path as the string the server handles: "/" before every segment.
RECURSIVE PathText(_)
PathText(segs) ==
    IF segs = <<>> THEN <<>> ELSE <<"/">> \o Head(segs) \o PathText(Tail(segs))

\* String.prototype.startsWith
StartsWith(text, prefix) ==
    Len(text) >= Len(prefix) /\ SubSeq(text, 1, Len(prefix)) = prefix

\* The request handler, with the callbacks of fs.access and fs.readFile (the
\* disk does not change in between): 403, 404, 500 (readFile of a directory)
\* or 200 with the file's data.
Respond(url) ==
    LET filePath == PathJoin(PUBLIC_DIR, IF url = <<>> THEN <<IndexHtml>> ELSE url)
    IN  IF ~StartsWith(PathText(filePath), PathText(PUBLIC_DIR))
        THEN [code |-> 403, path |-> filePath, read |-> FALSE]
        ELSE IF filePath \notin Files \cup Dirs
        THEN [code |-> 404, path |-> filePath, read |-> FALSE]
        ELSE IF filePath \in Dirs
        THEN [code |-> 500, path |-> filePath, read |-> FALSE]
        ELSE [code |-> 200, path |-> filePath, read |-> TRUE]

Request(url) ==
    /\ reqUrl' = url
    /\ res' = Respond(url)
    /\ UNCHANGED <<impl, ios, audioContext, audioInitialized, currentTime, state, timers,
                   pendingResume, iosCreate, randomInputOpen, clicks, lastClick, wake,
                   gap, userStopped, threw, confirmed, status, intervalMs, bpmOut,
                   unmute, events, last>>

NextServer == \E url \in Urls : Request(url)

SpecServer == Init /\ [][NextServer]_vars

\* The path lies in the public directory: PUBLIC_DIR itself or below it.
InsidePublicDir(path) ==
    Len(path) >= Len(PUBLIC_DIR) /\ SubSeq(path, 1, Len(PUBLIC_DIR)) = PUBLIC_DIR

\* C28 (as claimed): a request whose resolved path does not lie inside the
\* public directory is answered 403 and no file is read for it; a file that is
\* read and served lies inside the public directory, never in a sibling
\* directory whose name begins with "public".
C28_TraversalRejected ==
    res # NoResponse =>
        /\ ~InsidePublicDir(res.path) => (res.code = 403 /\ ~res.read)
        /\ res.read => InsidePublicDir(res.path)


----------------------------------------------------------------------------
(* The mute entry of src/metronome.js                                       *)

\* C29 (as claimed): the mute entry is opened only by the mute command while
\* running; while it is open the keys Space, T, H and D change nothing; Escape
\* closes it and changes nothing; Enter or blur closes it and stores the
\* confirmed value if it is a number in 0..100, and changes nothing otherwise.
C29_MuteEntryModal ==
    [][ /\ (~randomInputOpen /\ randomInputOpen') => (state.isRunning /\ last' = "keyR")
        /\ (randomInputOpen /\ last' \in {"space", "keyT", "keyH", "keyD"})
             => /\ state' = state
                /\ clicks' = <<>>
                /\ UNCHANGED <<timers, pendingResume, randomInputOpen, audioContext,
                               audioInitialized, currentTime, status>>
        /\ last' = "escape" => (~randomInputOpen' /\ state' = state)
        /\ last' \in {"enter", "blur"}
             => /\ ~randomInputOpen'
                /\ state' = IF confirmed' \in Numerals /\ Denotes(confirmed') \in 0..100
                            THEN [state EXCEPT !.randomMuteProbability = Denotes(confirmed')]
                            ELSE state
      ]_vars


----------------------------------------------------------------------------
(* The timers                                                               *)

\* C30 (as claimed): at most one setInterval timer is live at any time, and a
\* live timer is the one state.intervalId names.
C30_OneLiveTimer ==
    /\ Cardinality(timers) <= 1
    /\ timers \subseteq {state.intervalId}


----------------------------------------------------------------------------
(* The restart of src/public/metronome.js                                   *)

\* C31: in public, a tempo command that reaches the running metronome (half,
\* double, or the tap that completes a pair) leaves it running with exactly one
\* live timer, the one intervalId names, with the new tempo in bpm and with
\* nextNoteTime at the audio clock plus 0.05 s, whatever has been emitted.
C31_PublicRestart ==
    [][ (impl = "public" /\ TempoCommand)
          => /\ state'.isRunning
             /\ Cardinality(timers') = 1
             /\ timers' = {state'.intervalId}
             /\ state'.nextNoteTime = currentTime + Delay
             /\ last' = "keyH" => state'.bpm = (state.bpm + 1) \div 2
             /\ last' = "keyD" => state'.bpm = (IF 2 * state.bpm > 300 THEN 300 ELSE 2 * state.bpm)
             /\ last' = "keyT" => state'.bpm \in 30..300
      ]_vars

\* C31 witness: in public a half command has restarted the metronome after a
\* beat had been emitted for a timestamp later than the new nextNoteTime.
C31_Witness ==
    /\ impl = "public"
    /\ last = "keyH"
    /\ state.isRunning
    /\ state.nextNoteTime = currentTime + Delay
    /\ lastClick # NULL /\ lastClick > state.nextNoteTime


----------------------------------------------------------------------------
(* Taps across stop and start                                               *)

\* C32: only a tap changes tapCount and the tap anchor: stop() and start(),
\* wherever they are called, leave both as they are.  A first tap made before a
\* stop is therefore still pending after the next start, and the next tap
\* completes the pair: bpm becomes round(60 / (now - anchor)) clamped to
\* 30..300 and tapCount returns to 0.
C32_TapsSurviveStop ==
    [][ /\ last' # "keyT"
          => /\ state'.tapCount = state.tapCount
             /\ state'.lastTapTime = state.lastTapTime
        /\ (TapIssued /\ state.tapCount = 1 /\ currentTime > state.lastTapTime)
          => /\ state'.tapCount = 0
             /\ state'.bpm = Max(30, Min(300, Round(BeatUnits, currentTime - state.lastTapTime)))
      ]_vars

\* C32 witness (src/metronome.js): a first tap was pending, the metronome was
\* stopped and started again 0.5 s after that tap, and the tap that followed
\* the start has completed the pair: 120 BPM.
C32_Witness ==
    /\ impl = "main"
    /\ events = 3
    /\ last = "keyT"
    /\ state.tapCount = 0
    /\ wake.kind = "start"
    /\ 2 * (wake.at - state.lastTapTime) = Second
    /\ currentTime = wake.at
    /\ state.bpm = 120


----------------------------------------------------------------------------
(* The iOS audio unlock (unmuteIosAudio)                                    *)
(* Its variables are local to the call and shared with nothing else of the *)
(* page, so the protocol is explored on its own.                            *)

USER_ACTIVATION_EVENTS ==
    {"auxclick", "click", "contextmenu", "dblclick", "keydown", "keyup",
     "mousedown", "mouseup", "touchstart", "touchend"}

\* Mutant of maybeCleanup: the listeners go once either channel is allowed.
maybeCleanupEither(u) ==
    IF u.htmlAudioState # "allowed" /\ u.webAudioState # "allowed" THEN u
    ELSE [u EXCEPT !.listeners = "removed"]

\* maybeCleanup()
maybeCleanup(u) ==
    IF u.htmlAudioState # "allowed" \/ u.webAudioState # "allowed" THEN u
    ELSE [u EXCEPT !.listeners = "removed"]

\* createHtmlAudio(): makes the element and calls play(); the promise settles
\* later.
createHtmlAudio(u) ==
    [u EXCEPT !.audio = TRUE, !.plays = @ + 1, !.htmlAttempts = @ + 1]

\* createWebAudio(): running says whether the new context came up running.
createWebAudio(u, running) ==
    IF running
    THEN maybeCleanup([u EXCEPT !.context = "running", !.webAttempts = @ + 1,
                                !.webAudioState = "allowed"])
    ELSE [u EXCEPT !.context = "null", !.webAttempts = @ + 1,
                   !.webAudioState = "blocked"]

\* handleUserActivation(e)
handleUserActivation(u, running) ==
    LET h == IF u.htmlAudioState = "blocked"
             THEN createHtmlAudio([u EXCEPT !.htmlAudioState = "pending"])
             ELSE u
    IN  IF h.webAudioState = "blocked"
        THEN createWebAudio([h EXCEPT !.webAudioState = "pending"], running)
        ELSE h

\* audio.play() settles: allowed and maybeCleanup(), or back to blocked with
\* the element dropped.
playSettled(u, ok) ==
    IF ok
    THEN maybeCleanup([u EXCEPT !.plays = @ - 1, !.htmlAudioState = "allowed"])
    ELSE [u EXCEPT !.plays = @ - 1, !.htmlAudioState = "blocked", !.audio = FALSE]

UnmuteFrame ==
    UNCHANGED <<impl, ios, audioContext, audioInitialized, currentTime, state, timers,
                pendingResume, iosCreate, randomInputOpen, clicks, lastClick, wake,
                gap, userStopped, threw, confirmed, status, intervalMs, bpmOut,
                reqUrl, res, events>>

\* One of the user-activation events reaches the window while the listeners
\* are installed.
UserActivation(e) ==
    /\ unmute.listeners = "installed"
    /\ unmute.htmlAttempts < MaxAttempts /\ unmute.webAttempts < MaxAttempts
    /\ \E running \in BOOLEAN :
          unmute' = [handleUserActivation(unmute, running) EXCEPT !.event = e]
    /\ last' = "activation"
    /\ UnmuteFrame

\* The promise of audio.play() is fulfilled or rejected.
PlaySettles(ok) ==
    /\ unmute.plays > 0
    /\ unmute' = playSettled(unmute, ok)
    /\ last' = IF ok THEN "played" ELSE "playRejected"
    /\ UnmuteFrame

InitUnmute == Init /\ impl = "main" /\ ios

NextUnmute ==
    \/ \E e \in USER_ACTIVATION_EVENTS : UserActivation(e)
    \/ \E ok \in BOOLEAN : PlaySettles(ok)

SpecUnmute == InitUnmute /\ [][NextUnmute]_vars

ChannelStates == {"blocked", "pending", "allowed"}

\* C33: each channel is blocked, pending or allowed; an unlock attempt is
\* started only from blocked, so at most one play() is unsettled and the HTML
\* channel is pending exactly then, and the Web Audio attempt is over when its
\* handler returns; a rejected play() and a context that is not running put the
\* channel back to blocked; allowed is never left; and the listeners are
\* removed exactly when both channels are allowed.
C33_UnlockProtocol ==
    /\ unmute.htmlAudioState = "blocked" /\ unmute.webAudioState = "blocked"
    /\ unmute.listeners = "installed"
    /\ [][ /\ unmute'.htmlAudioState \in ChannelStates
           /\ unmute'.webAudioState \in ChannelStates
           /\ unmute'.htmlAttempts > unmute.htmlAttempts
                => (unmute.htmlAudioState = "blocked" /\ unmute'.htmlAttempts = unmute.htmlAttempts + 1)
           /\ unmute'.webAttempts > unmute.webAttempts
                => (unmute.webAudioState = "blocked" /\ unmute'.webAttempts = unmute.webAttempts + 1)
           /\ unmute'.plays \in {0, 1}
           /\ unmute'.htmlAudioState = "pending" <=> unmute'.plays = 1
           /\ unmute'.webAudioState # "pending"
           /\ last' = "playRejected" => unmute'.htmlAudioState = "blocked"
           /\ (unmute'.webAttempts > unmute.webAttempts /\ unmute'.context # "running")
                => unmute'.webAudioState = "blocked"
           /\ unmute.htmlAudioState = "allowed" => unmute'.htmlAudioState = "allowed"
           /\ unmute.webAudioState = "allowed" => unmute'.webAudioState = "allowed"
           /\ unmute'.listeners = "removed"
                <=> (unmute'.htmlAudioState = "allowed" /\ unmute'.webAudioState = "allowed")
         ]_vars

\* C33 witness: both channels are allowed and the listeners are removed, after
\* a first attempt had failed on each channel.
C33_Witness ==
    /\ unmute.htmlAudioState = "allowed"
    /\ unmute.webAudioState = "allowed"
    /\ unmute.listeners = "removed"
    /\ unmute.htmlAttempts = 2
    /\ unmute.webAttempts = 2

====
